---- MODULE Spec2Model ----
(***************************************************************************)
(* The artifact panel of the chat client (components/artifact/artifact.tsx):*)
(* the revision history of the active document as held in the SWR cache,    *)
(* the React state of PureArtifact (mode, document, currentVersionIndex,    *)
(* isContentDirty), the values captured by the last render, the debounced   *)
(* flush and the write requests in flight.                                  *)
(***************************************************************************)
EXTENDS Integers, Sequences, FiniteSets, TLC

\* ------------------------------------------------------------------ bounds
MaxEdits == 2      \* saveContent calls in one behaviour
MaxStreams == 1    \* streams that finish and store a revision
MaxBatch == 2      \* handleVersionChange calls made without a re-render
MaxPasses == 2     \* changes of the identity of sendMessage

\* --------------------------------------------------------------- constants
Contents == {"", "a", "b"}
Types == {"next", "prev", "toggle", "latest"}
Queries == {"", "hi", "yo"}     \* searchParams.get("query"), "" for null

VARIABLES
    artifact,             \* useArtifact(): documentId, status, content
    cache,                \* SWR cache entry of `/api/document?id=<documentId>`
    server,               \* contents of the revisions the backend stores
    mode,                 \* useState<"edit" | "diff">
    document,             \* useState<Document | null>, <<>> is null
    currentVersionIndex,  \* useState(-1)
    isContentDirty,       \* useState(false)
    r,                    \* what the last render read (closures, props)
    pending,              \* argument of the armed debounce timer, <<>> if none
    inflight,             \* mutations awaiting their POST, in start order
    posted,               \* contents of the POST requests issued so far
    navCalls,             \* handleVersionChange calls since the last render
    edits,                \* saveContent calls so far
    streams,              \* finished streams so far
    op,                   \* the operation that made the last step
    \* Chat and DesktopResizablePanel
    query,                \* searchParams.get("query"), "" when absent
    hasAppendedQuery,     \* useState(false)
    sendMessage,          \* identity of the sendMessage useChat returns
    chatR,                \* dependencies of the query effect at its last run
    sentTurns,            \* texts of the synthetic user turns sent
    isVisible,            \* artifact.isVisible
    collapsed,            \* the artifact Panel is collapsed
    open,                 \* the outer sidebar is open (useSidebar)
    hasBeenExpanded,      \* useState(false)
    panelR                \* what the last render of DesktopResizablePanel
                          \* read: isArtifactVisible and getMinSize()

artifactVars == << artifact, cache, server, mode, document, currentVersionIndex,
                   isContentDirty, r, pending, inflight, posted, navCalls,
                   edits, streams >>

chatVars == << query, hasAppendedQuery, sendMessage, chatR, sentTurns,
               isVisible, collapsed, open, hasBeenExpanded, panelR >>

vars == << artifactVars, op, chatVars >>

\* ------------------------------------------------------------------ values
\* `undefined` data of useSWR / of the cache, and a loaded list
Undefined == [loaded |-> FALSE, list |-> << >>]
Loaded(list) == [loaded |-> TRUE, list |-> list]

\* a Document row as the client sees it; createdAt tells a fetched row from
\* one synthesized by the write path (new Date())
Doc(content, createdAt) == [content |-> content, createdAt |-> createdAt]

RECURSIVE Fetched(_)
Fetched(contents) ==
    IF contents = << >> THEN << >>
    ELSE << Doc(Head(contents), "server") >> \o Fetched(Tail(contents))

Last(list) == list[Len(list)]

initialArtifactData == [documentId |-> "init", status |-> "idle", content |-> ""]

\* the key of useSWR without the test of the status
KeyEnabled_ignoresStatus(a) == a.documentId # "init"

\* the key of useSWR: null while uninitialized or streaming
KeyEnabled(a) == a.documentId # "init" /\ a.status # "streaming"

\* `data: documents` as useSWR returns it for the artifact a
Documents(a) == IF KeyEnabled(a) THEN cache ELSE Undefined

NoOp == [name |-> "init", arg |-> "", before |-> << >>]
Op(name, arg, before) == [name |-> name, arg |-> arg, before |-> before]

\* ------------------------------------------------------------- pure parts
\* getDocumentContentById indexing one record too far
getDocumentContentById_offByOne(documents, index) ==
    IF ~documents.loaded THEN ""
    ELSE IF index + 1 \notin 0 .. Len(documents.list) - 1 THEN ""
    ELSE documents.list[index + 2].content

\* getDocumentContentById, over the documents of the last render
getDocumentContentById(documents, index) ==
    IF ~documents.loaded THEN ""
    ELSE IF index \notin 0 .. Len(documents.list) - 1 THEN ""
    ELSE documents.list[index + 1].content

\* isCurrentVersion without the no-documents case
isCurrentVersion_indexOnly(documents, index) ==
    index = Len(documents.list) - 1

\* isCurrentVersion, computed at each render
isCurrentVersion(documents, index) ==
    IF documents.loaded /\ Len(documents.list) > 0
    THEN index = Len(documents.list) - 1
    ELSE TRUE

\* the `content` prop handed to artifactDefinition.content
EditorContent(documents, index, a) ==
    IF isCurrentVersion(documents, index)
    THEN a.content
    ELSE getDocumentContentById(documents, index)

\* handleVersionChange whose "latest" forgets setMode("edit")
handleVersionChange_latestKeepsMode(type, documents, closureIndex, index, m) ==
    IF ~documents.loaded THEN << index, m >>
    ELSE IF type = "latest" THEN << Len(documents.list) - 1, m >>
    ELSE IF type = "toggle" THEN << index, IF m = "edit" THEN "diff" ELSE "edit" >>
    ELSE IF type = "prev"
         THEN IF closureIndex > 0 THEN << index - 1, m >> ELSE << index, m >>
    ELSE IF closureIndex < Len(documents.list) - 1
         THEN << index + 1, m >> ELSE << index, m >>

\* handleVersionChange whose "toggle" always enters the diff view
handleVersionChange_toggleToDiff(type, documents, closureIndex, index, m) ==
    IF ~documents.loaded THEN << index, m >>
    ELSE IF type = "latest" THEN << Len(documents.list) - 1, "edit" >>
    ELSE IF type = "toggle" THEN << index, "diff" >>
    ELSE IF type = "prev"
         THEN IF closureIndex > 0 THEN << index - 1, m >> ELSE << index, m >>
    ELSE IF closureIndex < Len(documents.list) - 1
         THEN << index + 1, m >> ELSE << index, m >>

\* handleVersionChange without the early return of line 163
handleVersionChange_noLoadedGuard(type, documents, closureIndex, index, m) ==
    IF type = "latest" THEN << Len(documents.list) - 1, "edit" >>
    ELSE IF type = "toggle" THEN << index, IF m = "edit" THEN "diff" ELSE "edit" >>
    ELSE IF type = "prev"
         THEN IF closureIndex > 0 THEN << index - 1, m >> ELSE << index, m >>
    ELSE IF closureIndex < Len(documents.list) - 1
         THEN << index + 1, m >> ELSE << index, m >>

\* handleVersionChange: documents and closureIndex are the values the
\* handler closed over at the last render; index and m are the states the
\* queued updaters are applied to.  The result is the new <<index, mode>>.
handleVersionChange(type, documents, closureIndex, index, m) ==
    IF ~documents.loaded THEN << index, m >>
    ELSE IF type = "latest" THEN << Len(documents.list) - 1, "edit" >>
    ELSE IF type = "toggle" THEN << index, IF m = "edit" THEN "diff" ELSE "edit" >>
    ELSE IF type = "prev"
         THEN IF closureIndex > 0 THEN << index - 1, m >> ELSE << index, m >>
    ELSE IF closureIndex < Len(documents.list) - 1
         THEN << index + 1, m >> ELSE << index, m >>

\* ----------------------------------------------------------------- render
\* the values a render of PureArtifact reads
View == [documents |-> Documents(artifact),
         currentVersionIndex |-> currentVersionIndex,
         document |-> document,
         mode |-> mode,
         isContentDirty |-> isContentDirty,
         artifact |-> artifact]

RenderPending == r # View

\* the Chat component before its first render, without a query parameter
ChatUnmounted ==
    /\ query = ""
    /\ hasAppendedQuery = FALSE
    /\ sendMessage = 0
    /\ chatR = [mounted |-> FALSE, query |-> "", hasAppendedQuery |-> FALSE,
                sendMessage |-> 0]
    /\ sentTurns = << >>
    /\ isVisible = FALSE
    /\ collapsed = TRUE
    /\ open = TRUE
    /\ hasBeenExpanded = FALSE
    /\ panelR = [mounted |-> FALSE, isArtifactVisible |-> FALSE, minSize |-> 0]

Init ==
    /\ artifact = initialArtifactData
    /\ cache = Undefined
    /\ server \in {<< >>, << "a" >>}
    /\ mode = "edit"
    /\ document = << >>
    /\ currentVersionIndex = -1
    /\ isContentDirty = FALSE
    /\ r = [documents |-> Undefined, currentVersionIndex |-> -1,
            document |-> << >>, mode |-> "edit", isContentDirty |-> FALSE,
            artifact |-> initialArtifactData]
    /\ pending = << >>
    /\ inflight = << >>
    /\ posted = << >>
    /\ navCalls = 0
    /\ edits = 0
    /\ streams = 0
    /\ op = NoOp
    /\ ChatUnmounted

\* Render whose [documents] effect forgets setCurrentVersionIndex
Render_keepsIndex ==
    /\ RenderPending
    /\ r' = View
    /\ navCalls' = 0
    /\ LET documents == Documents(artifact) IN
       IF documents # r.documents /\ documents.loaded /\ Len(documents.list) > 0
       THEN LET mostRecentDocument == Last(documents.list) IN
            /\ document' = << mostRecentDocument >>
            /\ UNCHANGED currentVersionIndex
            /\ artifact' = [artifact EXCEPT !.content = mostRecentDocument.content]
       ELSE UNCHANGED << document, currentVersionIndex, artifact >>
    /\ op' = Op("render",
                IF artifact.status # r.artifact.status /\ KeyEnabled(artifact)
                THEN "mutateDocuments" ELSE "",
                << >>)
    /\ UNCHANGED << cache, server, mode, isContentDirty, pending, inflight,
                    posted, edits, streams >>
    /\ UNCHANGED chatVars

\* A render of PureArtifact followed by its effects.  The effect on
\* [documents] runs when the data useSWR returns has changed.  The effect on
\* [artifact.status] calls mutateDocuments(), which revalidates unless the
\* key of this render is null; op'.arg records that request.
Render ==
    /\ RenderPending
    /\ r' = View
    /\ navCalls' = 0
    /\ LET documents == Documents(artifact) IN
       IF documents # r.documents /\ documents.loaded /\ Len(documents.list) > 0
       THEN LET mostRecentDocument == Last(documents.list) IN
            /\ document' = << mostRecentDocument >>
            /\ currentVersionIndex' = Len(documents.list) - 1
            /\ artifact' = [artifact EXCEPT !.content = mostRecentDocument.content]
       ELSE UNCHANGED << document, currentVersionIndex, artifact >>
    /\ op' = Op("render",
                IF artifact.status # r.artifact.status /\ KeyEnabled(artifact)
                THEN "mutateDocuments" ELSE "",
                << >>)
    /\ UNCHANGED << cache, server, mode, isContentDirty, pending, inflight,
                    posted, edits, streams >>
    /\ UNCHANGED chatVars

\* A call of handleVersionChange from the controls rendered last.  A user
\* event finds the component re-rendered; further calls made from the same
\* event run against the same closure.
VersionChange(type) ==
    /\ \/ ~RenderPending
       \/ navCalls > 0 /\ navCalls < MaxBatch
    /\ LET next == handleVersionChange(type, r.documents, r.currentVersionIndex,
                                       currentVersionIndex, mode) IN
       /\ currentVersionIndex' = next[1]
       /\ mode' = next[2]
       /\ navCalls' = IF next # << r.currentVersionIndex, r.mode >>
                      THEN navCalls + 1 ELSE 0
    /\ op' = Op(type, "", << >>)
    /\ UNCHANGED << artifact, cache, server, document, isContentDirty, r,
                    pending, inflight, posted, edits, streams >>
    /\ UNCHANGED chatVars

\* ------------------------------------------------------ the data stream
\* An existing document is opened in the panel: the artifact gets its
\* document id and stays idle.
OpenDocument ==
    /\ ~RenderPending
    /\ artifact.documentId = "init"
    /\ artifact' = [artifact EXCEPT !.documentId = "doc"]
    /\ op' = Op("open", "", << >>)
    /\ UNCHANGED << cache, server, mode, document, currentVersionIndex,
                    isContentDirty, r, pending, inflight, posted, navCalls,
                    edits, streams >>
    /\ UNCHANGED chatVars

\* A document-producing stream starts: the artifact gets its document id,
\* its status becomes "streaming" and its content buffer is cleared.
StreamStart ==
    /\ ~RenderPending
    /\ artifact.status = "idle"
    /\ streams < MaxStreams
    /\ artifact' = [documentId |-> "doc", status |-> "streaming", content |-> ""]
    /\ op' = Op("streamStart", "", << >>)
    /\ UNCHANGED << cache, server, mode, document, currentVersionIndex,
                    isContentDirty, r, pending, inflight, posted, navCalls,
                    edits, streams >>
    /\ UNCHANGED chatVars

\* A stream fragment replaces the content buffer.
StreamDelta(content) ==
    /\ ~RenderPending
    /\ artifact.status = "streaming"
    /\ artifact.content # content
    /\ artifact' = [artifact EXCEPT !.content = content]
    /\ op' = Op("streamDelta", content, << >>)
    /\ UNCHANGED << cache, server, mode, document, currentVersionIndex,
                    isContentDirty, r, pending, inflight, posted, navCalls,
                    edits, streams >>
    /\ UNCHANGED chatVars

\* The stream finishes: the backend has stored the streamed content as the
\* newest revision and the status returns to "idle".
StreamFinish ==
    /\ ~RenderPending
    /\ artifact.status = "streaming"
    /\ artifact' = [artifact EXCEPT !.status = "idle"]
    /\ server' = Append(server, artifact.content)
    /\ streams' = streams + 1
    /\ op' = Op("streamFinish", "", << >>)
    /\ UNCHANGED << cache, mode, document, currentVersionIndex, isContentDirty,
                    r, pending, inflight, posted, navCalls, edits >>
    /\ UNCHANGED chatVars

\* ------------------------------------------------------------- SWR cache
\* a mutation started later takes the cache from every earlier one
Supersede(ms) == [i \in DOMAIN ms |-> [ms[i] EXCEPT !.latest = FALSE]]

Mutating == \E i \in DOMAIN inflight : inflight[i].latest

\* useSWR revalidates the key of the last render (on mount, on focus, on
\* mutateDocuments()); a response that overlaps a mutation is dropped.
Fetch ==
    /\ ~RenderPending
    /\ KeyEnabled(r.artifact)
    /\ ~Mutating
    /\ cache' = Loaded(Fetched(server))
    /\ op' = Op("fetch", "", << >>)
    /\ UNCHANGED << artifact, server, mode, document, currentVersionIndex,
                    isContentDirty, r, pending, inflight, posted, navCalls,
                    edits, streams >>
    /\ UNCHANGED chatVars

\* ------------------------------------------------------------- write path
\* handleContentChange with the comparison of line 108 inverted
handleContentChange_inverted(updatedContent, dirty) ==
    IF ~cache.loaded
    THEN /\ inflight' = Supersede(inflight)
         /\ isContentDirty' = dirty
         /\ UNCHANGED << cache, posted >>
    ELSE LET currentDocuments == cache.list IN
         IF currentDocuments = << >> \/ Last(currentDocuments).content = ""
         THEN /\ isContentDirty' = FALSE
              /\ inflight' = Supersede(inflight)
              /\ UNCHANGED << cache, posted >>
         ELSE IF Last(currentDocuments).content = updatedContent
         THEN /\ posted' = Append(posted, updatedContent)
              /\ inflight' = Append(Supersede(inflight),
                                    [content |-> updatedContent,
                                     currentDocuments |-> currentDocuments,
                                     latest |-> TRUE])
              /\ isContentDirty' = dirty
              /\ UNCHANGED cache
         ELSE /\ inflight' = Supersede(inflight)
              /\ isContentDirty' = dirty
              /\ UNCHANGED << cache, posted >>

\* handleContentChange(updatedContent): mutate(key, async fn, {revalidate:
\* false}) up to the await of the POST.  dirty is isContentDirty as the
\* caller left it.
handleContentChange(updatedContent, dirty) ==
    IF ~cache.loaded
    THEN /\ inflight' = Supersede(inflight)
         /\ isContentDirty' = dirty
         /\ UNCHANGED << cache, posted >>
    ELSE LET currentDocuments == cache.list IN
         IF currentDocuments = << >> \/ Last(currentDocuments).content = ""
         THEN /\ isContentDirty' = FALSE
              /\ inflight' = Supersede(inflight)
              /\ UNCHANGED << cache, posted >>
         ELSE IF Last(currentDocuments).content # updatedContent
         THEN /\ posted' = Append(posted, updatedContent)
              /\ inflight' = Append(Supersede(inflight),
                                    [content |-> updatedContent,
                                     currentDocuments |-> currentDocuments,
                                     latest |-> TRUE])
              /\ isContentDirty' = dirty
              /\ UNCHANGED cache
         ELSE /\ inflight' = Supersede(inflight)
              /\ isContentDirty' = dirty
              /\ UNCHANGED << cache, posted >>

\* saveContent without the test of line 143
saveContent_noGuard(updatedContent, debounce) ==
    /\ ~RenderPending
    /\ edits < MaxEdits
    /\ edits' = edits + 1
    /\ IF TRUE
       THEN IF debounce
            THEN /\ isContentDirty' = TRUE
                 /\ pending' = << updatedContent >>
                 /\ UNCHANGED << cache, inflight, posted >>
            ELSE /\ handleContentChange(updatedContent, TRUE)
                 /\ UNCHANGED pending
       ELSE UNCHANGED << isContentDirty, pending, cache, inflight, posted >>
    /\ op' = Op(IF debounce THEN "saveDebounced" ELSE "saveImmediate",
                updatedContent, << >>)
    /\ UNCHANGED << artifact, server, mode, document, currentVersionIndex, r,
                    navCalls, streams >>
    /\ UNCHANGED chatVars

\* saveContent(updatedContent, debounce), the editor's onSaveContent
saveContent(updatedContent, debounce) ==
    /\ ~RenderPending
    /\ edits < MaxEdits
    /\ edits' = edits + 1
    /\ IF r.document # << >> /\ updatedContent # r.document[1].content
       THEN IF debounce
            THEN /\ isContentDirty' = TRUE
                 /\ pending' = << updatedContent >>
                 /\ UNCHANGED << cache, inflight, posted >>
            ELSE /\ handleContentChange(updatedContent, TRUE)
                 /\ UNCHANGED pending
       ELSE UNCHANGED << isContentDirty, pending, cache, inflight, posted >>
    /\ op' = Op(IF debounce THEN "saveDebounced" ELSE "saveImmediate",
                updatedContent, << >>)
    /\ UNCHANGED << artifact, server, mode, document, currentVersionIndex, r,
                    navCalls, streams >>
    /\ UNCHANGED chatVars

\* the 2000ms of debouncedHandleContentChange elapse with no further call
DebounceExpire ==
    /\ ~RenderPending
    /\ pending # << >>
    /\ handleContentChange(pending[1], isContentDirty)
    /\ pending' = << >>
    /\ op' = Op("flush", pending[1], << >>)
    /\ UNCHANGED << artifact, server, mode, document, currentVersionIndex, r,
                    navCalls, edits, streams >>
    /\ UNCHANGED chatVars

Remove(ms, i) == [j \in 1 .. Len(ms) - 1 |-> IF j < i THEN ms[j] ELSE ms[j + 1]]

\* WriteComplete that populates the cache from a superseded mutation too
WriteComplete_ignoresLatest(i) ==
    /\ ~RenderPending
    /\ i \in DOMAIN inflight
    /\ LET m == inflight[i]
           newDocument == Doc(m.content, "local") IN
       /\ server' = Append(server, m.content)
       /\ isContentDirty' = FALSE
       /\ cache' = Loaded(Append(m.currentDocuments, newDocument))
       /\ op' = Op("writeOk", m.content, m.currentDocuments)
    /\ inflight' = Remove(inflight, i)
    /\ UNCHANGED << artifact, mode, document, currentVersionIndex, r, pending,
                    posted, navCalls, edits, streams >>
    /\ UNCHANGED chatVars

\* the POST of the i-th mutation in flight resolves: the rest of the async
\* function runs and SWR populates the cache unless the mutation was
\* superseded
WriteComplete(i) ==
    /\ ~RenderPending
    /\ i \in DOMAIN inflight
    /\ LET m == inflight[i]
           newDocument == Doc(m.content, "local") IN
       /\ server' = Append(server, m.content)
       /\ isContentDirty' = FALSE
       /\ cache' = IF m.latest
                   THEN Loaded(Append(m.currentDocuments, newDocument))
                   ELSE cache
       /\ op' = Op("writeOk", m.content, m.currentDocuments)
    /\ inflight' = Remove(inflight, i)
    /\ UNCHANGED << artifact, mode, document, currentVersionIndex, r, pending,
                    posted, navCalls, edits, streams >>
    /\ UNCHANGED chatVars

\* WriteReject that clears the dirty flag as a completed write does
WriteReject_clearsDirty(i) ==
    /\ ~RenderPending
    /\ i \in DOMAIN inflight
    /\ inflight' = Remove(inflight, i)
    /\ isContentDirty' = FALSE
    /\ op' = Op("writeFail", inflight[i].content, inflight[i].currentDocuments)
    /\ UNCHANGED << artifact, cache, server, mode, document,
                    currentVersionIndex, r, pending, posted,
                    navCalls, edits, streams >>
    /\ UNCHANGED chatVars

\* the POST rejects: the async function throws at the await
WriteReject(i) ==
    /\ ~RenderPending
    /\ i \in DOMAIN inflight
    /\ inflight' = Remove(inflight, i)
    /\ op' = Op("writeFail", inflight[i].content, inflight[i].currentDocuments)
    /\ UNCHANGED << artifact, cache, server, mode, document,
                    currentVersionIndex, isContentDirty, r, pending, posted,
                    navCalls, edits, streams >>
    /\ UNCHANGED chatVars

Next ==
    \/ Render
    \/ \E type \in Types : VersionChange(type)
    \/ OpenDocument
    \/ StreamStart
    \/ \E content \in Contents : StreamDelta(content)
    \/ StreamFinish
    \/ Fetch
    \/ \E content \in Contents, debounce \in BOOLEAN : saveContent(content, debounce)
    \/ DebounceExpire
    \/ \E i \in 1 .. MaxEdits : WriteComplete(i)
    \/ \E i \in 1 .. MaxEdits : WriteReject(i)

Spec == Init /\ [][Next]_vars

\* PureArtifact stays mounted when the artifact moves to another document:
\* `document` and the index still hold the last record of the document shown
\* before, while the cache has no entry yet for the new key
StaleInit ==
    /\ artifact = [documentId |-> "doc", status |-> "idle", content |-> ""]
    /\ cache = Undefined
    /\ server = << "a" >>
    /\ mode = "edit"
    /\ document = << Doc("b", "server") >>
    /\ currentVersionIndex = 0
    /\ isContentDirty = FALSE
    /\ r = [documents |-> Undefined, currentVersionIndex |-> 0,
            document |-> << Doc("b", "server") >>, mode |-> "edit",
            isContentDirty |-> FALSE,
            artifact |-> [documentId |-> "doc", status |-> "idle", content |-> ""]]
    /\ pending = << >>
    /\ inflight = << >>
    /\ posted = << >>
    /\ navCalls = 0
    /\ edits = 0
    /\ streams = 0
    /\ op = NoOp
    /\ ChatUnmounted

WriteInit == Init \/ StaleInit

WriteSpec == WriteInit /\ [][Next]_vars

\* ------------------------------------------- Chat, DesktopResizablePanel
\* the dependencies [query, sendMessage, hasAppendedQuery, id] of the query
\* effect; a change of id comes with a new sendMessage (useChat({id}))
ChatDeps == [mounted |-> TRUE, query |-> query,
             hasAppendedQuery |-> hasAppendedQuery, sendMessage |-> sendMessage]

\* Chat is about to mount, with or without a query parameter; the artifact
\* is at its initial data and plays no part
ChatInit ==
    /\ artifact = initialArtifactData
    /\ cache = Undefined
    /\ server = << >>
    /\ mode = "edit"
    /\ document = << >>
    /\ currentVersionIndex = -1
    /\ isContentDirty = FALSE
    /\ r = [documents |-> Undefined, currentVersionIndex |-> -1,
            document |-> << >>, mode |-> "edit", isContentDirty |-> FALSE,
            artifact |-> initialArtifactData]
    /\ pending = << >>
    /\ inflight = << >>
    /\ posted = << >>
    /\ navCalls = 0
    /\ edits = 0
    /\ streams = 0
    /\ op = NoOp
    /\ query \in Queries
    /\ hasAppendedQuery = FALSE
    /\ sendMessage = 0
    /\ chatR = [mounted |-> FALSE, query |-> "", hasAppendedQuery |-> FALSE,
                sendMessage |-> 0]
    /\ sentTurns = << >>
    /\ isVisible = FALSE
    /\ collapsed = TRUE
    /\ open \in BOOLEAN
    /\ hasBeenExpanded = FALSE
    /\ panelR = [mounted |-> FALSE, isArtifactVisible |-> FALSE, minSize |-> 0]

\* ChatRender whose effect forgets setHasAppendedQuery(true)
ChatRender_keepsFlag ==
    /\ chatR # ChatDeps
    /\ chatR' = ChatDeps
    /\ IF query # "" /\ ~hasAppendedQuery
       THEN /\ sentTurns' = Append(sentTurns, query)
            /\ UNCHANGED hasAppendedQuery
            /\ query' \in {query, ""}
            /\ op' = Op("sendMessage", query, << >>)
       ELSE /\ UNCHANGED << sentTurns, hasAppendedQuery, query >>
            /\ op' = Op("chatRender", "", << >>)
    /\ UNCHANGED << sendMessage, isVisible, collapsed, open, hasBeenExpanded,
                    panelR >>
    /\ UNCHANGED artifactVars

\* A render of Chat in which the query effect runs: the first one, and every
\* one that finds a dependency changed.  replaceState strips the parameter
\* from the address; whether useSearchParams follows it is the router's
\* business, so query is cleared or kept.
ChatRender ==
    /\ chatR # ChatDeps
    /\ chatR' = ChatDeps
    /\ IF query # "" /\ ~hasAppendedQuery
       THEN /\ sentTurns' = Append(sentTurns, query)
            /\ hasAppendedQuery' = TRUE
            /\ query' \in {query, ""}
            /\ op' = Op("sendMessage", query, << >>)
       ELSE /\ UNCHANGED << sentTurns, hasAppendedQuery, query >>
            /\ op' = Op("chatRender", "", << >>)
    /\ UNCHANGED << sendMessage, isVisible, collapsed, open, hasBeenExpanded,
                    panelR >>
    /\ UNCHANGED artifactVars

\* a client-side navigation changes the query parameter of the mounted chat
QueryChange(q) ==
    /\ chatR = ChatDeps
    /\ q # query
    /\ query' = q
    /\ op' = Op("queryChange", q, << >>)
    /\ UNCHANGED << hasAppendedQuery, sendMessage, chatR, sentTurns, isVisible,
                    collapsed, open, hasBeenExpanded, panelR >>
    /\ UNCHANGED artifactVars

\* useChat returns a new sendMessage
SendMessageChanges ==
    /\ chatR = ChatDeps
    /\ sendMessage < MaxPasses
    /\ sendMessage' = sendMessage + 1
    /\ op' = Op("sendMessageChanges", "", << >>)
    /\ UNCHANGED << query, hasAppendedQuery, chatR, sentTurns, isVisible,
                    collapsed, open, hasBeenExpanded, panelR >>
    /\ UNCHANGED artifactVars

getMinSize == IF hasBeenExpanded THEN 10 ELSE 50

\* the values a render of DesktopResizablePanel reads
PanelView == [mounted |-> TRUE, isArtifactVisible |-> isVisible,
              minSize |-> getMinSize]

\* onCollapse of the artifact Panel
onCollapse ==
    /\ open' = TRUE
    /\ isVisible' = FALSE

\* onExpand without setHasBeenExpanded(true)
onExpand_keepsFlag ==
    /\ open' = FALSE
    /\ UNCHANGED hasBeenExpanded

\* onExpand of the artifact Panel
onExpand ==
    /\ open' = FALSE
    /\ hasBeenExpanded' = TRUE

\* A render of DesktopResizablePanel followed by its effect.  The Panel
\* mounts collapsed (defaultSize 0, collapsible) and may report that first
\* layout through onCollapse.  The effect on [isArtifactVisible] calls
\* expand() or collapse(); the Panel calls onExpand / onCollapse when that
\* changes its state.
PanelRender ==
    /\ chatR.mounted
    /\ panelR # PanelView
    /\ panelR' = PanelView
    /\ IF panelR.mounted /\ panelR.isArtifactVisible = isVisible
       THEN /\ UNCHANGED << isVisible, collapsed, open, hasBeenExpanded >>
            /\ op' = Op("panelRender", "", << >>)
       ELSE IF isVisible /\ collapsed
       THEN /\ collapsed' = FALSE
            /\ onExpand
            /\ UNCHANGED isVisible
            /\ op' = Op("expand", "effect", << >>)
       ELSE IF ~isVisible /\ ~collapsed
       THEN /\ collapsed' = TRUE
            /\ onCollapse
            /\ UNCHANGED hasBeenExpanded
            /\ op' = Op("collapse", "effect", << >>)
       ELSE IF ~panelR.mounted /\ collapsed
       THEN \/ /\ onCollapse
               /\ UNCHANGED << collapsed, hasBeenExpanded >>
               /\ op' = Op("collapse", "mount", << >>)
            \/ /\ UNCHANGED << isVisible, collapsed, open, hasBeenExpanded >>
               /\ op' = Op("panelRender", "", << >>)
       ELSE /\ UNCHANGED << isVisible, collapsed, open, hasBeenExpanded >>
            /\ op' = Op("panelRender", "", << >>)
    /\ UNCHANGED << query, hasAppendedQuery, sendMessage, chatR, sentTurns >>
    /\ UNCHANGED artifactVars

\* the user drags the PanelResizeHandle, rendered while the artifact is
\* visible, until the Panel collapses
UserCollapse ==
    /\ panelR = PanelView
    /\ panelR.isArtifactVisible
    /\ ~collapsed
    /\ collapsed' = TRUE
    /\ onCollapse
    /\ op' = Op("collapse", "user", << >>)
    /\ UNCHANGED << query, hasAppendedQuery, sendMessage, chatR, sentTurns,
                    hasBeenExpanded, panelR >>
    /\ UNCHANGED artifactVars

\* a document is opened or created: the artifact becomes visible
ShowArtifact ==
    /\ panelR = PanelView
    /\ ~isVisible
    /\ isVisible' = TRUE
    /\ op' = Op("showArtifact", "", << >>)
    /\ UNCHANGED << query, hasAppendedQuery, sendMessage, chatR, sentTurns,
                    collapsed, open, hasBeenExpanded, panelR >>
    /\ UNCHANGED artifactVars

\* the close button of the artifact
HideArtifact ==
    /\ panelR = PanelView
    /\ isVisible
    /\ isVisible' = FALSE
    /\ op' = Op("hideArtifact", "", << >>)
    /\ UNCHANGED << query, hasAppendedQuery, sendMessage, chatR, sentTurns,
                    collapsed, open, hasBeenExpanded, panelR >>
    /\ UNCHANGED artifactVars

\* the user toggles the outer sidebar
ToggleSidebar ==
    /\ panelR = PanelView
    /\ open' = ~open
    /\ op' = Op("toggleSidebar", "", << >>)
    /\ UNCHANGED << query, hasAppendedQuery, sendMessage, chatR, sentTurns,
                    isVisible, collapsed, hasBeenExpanded, panelR >>
    /\ UNCHANGED artifactVars

ChatNext ==
    \/ ChatRender
    \/ \E q \in Queries : QueryChange(q)
    \/ SendMessageChanges
    \/ PanelRender
    \/ UserCollapse
    \/ ShowArtifact
    \/ HideArtifact
    \/ ToggleSidebar

ChatSpec == ChatInit /\ [][ChatNext]_vars

\* ================================================================= claims
\* historyLength as the claims use it: the number of loaded records
HistoryLength(documents) == IF documents.loaded THEN Len(documents.list) ELSE 0

\* the step calls handleContentChange with op'.arg
FlushStep ==
    \/ op'.name = "flush"
    \/ /\ op'.name = "saveImmediate"
       /\ r.document # << >>
       /\ op'.arg # r.document[1].content

\* C1: 'prev' at index 0 and 'next' at index historyLength-1 leave the
\* selected index unchanged, also when several navigation calls are made
\* before the component re-renders.
C1_NoOpAtEnds ==
    [][/\ (op'.name = "prev" /\ currentVersionIndex = 0)
            => currentVersionIndex' = currentVersionIndex
       /\ (op'.name = "next" /\ r.documents.loaded
            /\ currentVersionIndex = HistoryLength(r.documents) - 1)
            => currentVersionIndex' = currentVersionIndex]_vars

\* C2: a flush against a cached history with a last record issues no write
\* and leaves the dirty flag false when the proposed content equals the last
\* record's content, and issues a write carrying the proposed content when
\* it differs.
C2_WriteIffDiffers ==
    [][(FlushStep /\ cache.loaded /\ cache.list # << >>) =>
          LET last == Last(cache.list).content IN
          /\ op'.arg = last => (posted' = posted /\ ~isContentDirty')
          /\ op'.arg # last => posted' = Append(posted, op'.arg)]_vars

\* C3: after each write request that completes successfully the cached
\* history is one record longer than before the flush, its last record has
\* the proposed content, and the dirty flag is false.
C3_AppendOnSuccess ==
    [][op'.name = "writeOk" =>
          /\ cache'.loaded
          /\ Len(cache'.list) = Len(op'.before) + 1
          /\ Last(cache'.list).content = op'.arg
          /\ ~isContentDirty']_vars

\* C4: a debounced saveContent call that arrives while the timer of an
\* earlier call is armed supersedes it: the content armed for the write is
\* the content of the last call, whatever that content is.
C4_LastCallWins ==
    [][(op'.name = "saveDebounced" /\ pending # << >>)
          => pending' = << op'.arg >>]_vars

Tracked(content) ==
    /\ cache.loaded /\ cache.list # << >>
    /\ r.document = << Last(cache.list) >>
    /\ Last(cache.list).content \notin {"", content}

C6_OneWriteInFlight == Len(inflight) <= 1

\* C7 (as stated): the editor gets the artifact content buffer when the
\* selected index is historyLength-1, and otherwise the stored content of
\* the history record at the selected index.
C7_LatestOrStored ==
    LET documents == r.documents
        index == r.currentVersionIndex
        content == EditorContent(documents, index, r.artifact) IN
    IF index = HistoryLength(documents) - 1
    THEN content = r.artifact.content
    ELSE /\ index \in 0 .. HistoryLength(documents) - 1
         /\ content = documents.list[index + 1].content

\* C7 (amended): the editor gets the artifact content buffer when the
\* history is empty or not loaded or the selected index is historyLength-1;
\* otherwise the stored content of the record at the selected index when
\* the index addresses a record, and the empty string when it does not.
C7_DisplayedContent ==
    LET documents == r.documents
        index == r.currentVersionIndex
        content == EditorContent(documents, index, r.artifact) IN
    IF HistoryLength(documents) = 0 \/ index = HistoryLength(documents) - 1
    THEN content = r.artifact.content
    ELSE IF index \in 0 .. HistoryLength(documents) - 1
    THEN content = documents.list[index + 1].content
    ELSE content = ""

\* an older revision is selected and shown instead of the buffer
C7_Witness ==
    /\ HistoryLength(r.documents) >= 2
    /\ r.currentVersionIndex \in 0 .. HistoryLength(r.documents) - 2
    /\ r.documents.list[r.currentVersionIndex + 1].content # r.artifact.content
    /\ EditorContent(r.documents, r.currentVersionIndex, r.artifact)
         = r.documents.list[r.currentVersionIndex + 1].content

\* C8 (as stated): from every state 'latest' results in display mode 'edit'
\* and, where there is a history length, in selected index historyLength-1.
C8_LatestFromEveryState ==
    [][op'.name = "latest" =>
          /\ mode' = "edit"
          /\ r.documents.loaded
                => currentVersionIndex' = Len(r.documents.list) - 1]_vars

\* C8 (amended): from every state in which the history is loaded, 'latest'
\* results in selected index = historyLength-1 and display mode 'edit',
\* whatever the prior index and mode.
C8_LatestWhenLoaded ==
    [][(op'.name = "latest" /\ r.documents.loaded) =>
          /\ currentVersionIndex' = Len(r.documents.list) - 1
          /\ mode' = "edit"]_vars

\* 'latest' has just left the diff view of an older revision
C8_Witness ==
    /\ op.name = "latest"
    /\ r.documents.loaded
    /\ r.mode = "diff" /\ mode = "edit"
    /\ r.currentVersionIndex < Len(r.documents.list) - 1
    /\ currentVersionIndex = Len(r.documents.list) - 1

\* C9: 'toggle' never changes the selected index, changes nothing but the
\* display mode, which it flips between 'edit' and 'diff' (with a history
\* loaded), and two calls in a row restore the navigation state.
C9_Toggle ==
    /\ [][op'.name = "toggle" =>
            /\ currentVersionIndex' = currentVersionIndex
            /\ mode' = IF r.documents.loaded
                       THEN (IF mode = "edit" THEN "diff" ELSE "edit")
                       ELSE mode
            /\ UNCHANGED << artifact, cache, server, document, isContentDirty,
                            pending, inflight, posted >>]_vars
    /\ [](LET once == handleVersionChange("toggle", r.documents,
                          r.currentVersionIndex, currentVersionIndex, mode)
              twice == handleVersionChange("toggle", r.documents,
                          r.currentVersionIndex, once[1], once[2]) IN
          twice = << currentVersionIndex, mode >>)

\* 'toggle' has just entered and then left the diff view
C9_Witness ==
    /\ op.name = "toggle"
    /\ r.documents.loaded
    /\ r.mode = "diff" /\ mode = "edit"
    /\ currentVersionIndex = r.currentVersionIndex

\* C10: with the history empty or not loaded isCurrentVersion is true for
\* every selected index; with a non-empty history it is true exactly when
\* the selected index is historyLength-1.
C10_IsCurrentVersion ==
    LET documents == r.documents IN
    IF HistoryLength(documents) = 0
    THEN \A index \in -1 .. MaxEdits + MaxStreams + 1 :
            isCurrentVersion(documents, index)
    ELSE /\ isCurrentVersion(documents, r.currentVersionIndex)
            <=> r.currentVersionIndex = HistoryLength(documents) - 1
         /\ \A index \in -1 .. MaxEdits + MaxStreams + 1 :
               isCurrentVersion(documents, index)
                 <=> index = HistoryLength(documents) - 1

\* history [A,B,C] rendered at index 1 after 'prev': not the current version
C10_Witness ==
    /\ HistoryLength(r.documents) = 3
    /\ r.currentVersionIndex = 1
    /\ ~isCurrentVersion(r.documents, r.currentVersionIndex)

\* C11: while the content of a debounced edit is still unwritten (its timer
\* stays armed across the step and the content differs from the last
\* persisted revision) the dirty flag does not become false.
C11_DirtyWhileUnwritten ==
    [][(/\ isContentDirty
        /\ pending # << >> /\ pending' = pending
        /\ (server' = << >> \/ Last(server') # pending[1]))
          => isContentDirty']_vars

\* the step suppresses a flush: the last cached record is missing or empty
SuppressedFlushStep ==
    /\ FlushStep
    /\ cache.loaded
    /\ (cache.list = << >> \/ Last(cache.list).content = "")

\* C12: a write request that rejects leaves the dirty flag as it was (true
\* stays true) and appends no record to the cached history; a true dirty
\* flag becomes false only by a write that completes or a flush that is
\* suppressed, so with nothing armed or in flight and no further edit it
\* stays true.
C12_RejectKeepsDirty ==
    [][/\ op'.name = "writeFail"
            => (isContentDirty' = isContentDirty /\ cache' = cache)
       /\ (isContentDirty /\ ~isContentDirty')
            => (op'.name = "writeOk" \/ SuppressedFlushStep)
       /\ (/\ isContentDirty /\ pending = << >> /\ inflight = << >>
           /\ op'.name \notin {"saveDebounced", "saveImmediate"})
            => isContentDirty']_vars

\* the only write in flight has just rejected: the flag is still true and
\* the cached history is the one the flush started from
C12_Witness ==
    /\ op.name = "writeFail"
    /\ isContentDirty
    /\ inflight = << >> /\ pending = << >>
    /\ cache.loaded /\ cache.list = op.before

\* C14: no document-history fetch is issued, by useSWR or by the
\* mutateDocuments() of a status change, while the document id is "init" or
\* the status is "streaming"; the key is enabled, and a status change
\* refetches, exactly when the id is not "init" and the status is not
\* "streaming".
C14_FetchOnlyWhenEnabled ==
    /\ [][/\ (op'.name = "fetch" \/ (op'.name = "render" /\ op'.arg = "mutateDocuments"))
               => (artifact.documentId # "init" /\ artifact.status # "streaming")
          /\ (op'.name = "render" /\ artifact.status # r.artifact.status)
               => (op'.arg = "mutateDocuments"
                     <=> (artifact.documentId # "init" /\ artifact.status # "streaming"))]_vars
    /\ [](/\ KeyEnabled(r.artifact)
               <=> (r.artifact.documentId # "init" /\ r.artifact.status # "streaming")
          /\ r.documents.loaded
               => (r.artifact.documentId # "init" /\ r.artifact.status # "streaming"))

\* the status has changed to "streaming" over a cached history: the render
\* requests no fetch and shows no history
C14_Witness ==
    /\ op.name = "render" /\ op.arg = ""
    /\ r.artifact.status = "streaming"
    /\ cache.loaded
    /\ ~r.documents.loaded

\* C16 (as stated): once the cached history has changed to a non-empty list
\* and the component has re-rendered, the tracked latest document is the
\* last cached record.
C16_CacheChangeResets ==
    (~RenderPending /\ cache.loaded /\ cache.list # << >>)
        => document = << Last(cache.list) >>

\* C16 (amended): the cached history changes only by a fetch result or the
\* append of a completed write, and with the key enabled the component then
\* re-renders; when a render finds the history useSWR returns (undefined
\* while the key is null) changed to a non-empty list it selects index
\* historyLength-1, tracks the last record as the latest document and
\* overwrites the content buffer with that record's content; when it finds
\* it changed to an empty or undefined history it changes none of the three.
C16_HistoryChangeResets ==
    [][/\ cache' # cache
            => (/\ op'.name \in {"fetch", "writeOk"}
                /\ KeyEnabled(artifact) => RenderPending')
       /\ (op'.name = "render" /\ Documents(artifact) # r.documents)
            => LET documents == Documents(artifact) IN
               IF documents.loaded /\ documents.list # << >>
               THEN /\ currentVersionIndex' = Len(documents.list) - 1
                    /\ document' = << documents.list[Len(documents.list)] >>
                    /\ artifact'.content = documents.list[Len(documents.list)].content
               ELSE UNCHANGED << currentVersionIndex, document, artifact >>]_vars

\* the history grew to three records while the first one was selected: the
\* render has selected the last one and replaced the buffer
C16_Witness ==
    /\ op.name = "render"
    /\ r.documents.loaded /\ Len(r.documents.list) = 3
    /\ r.currentVersionIndex = 0
    /\ currentVersionIndex = 2
    /\ document = << r.documents.list[3] >>
    /\ r.artifact.content # artifact.content
    /\ artifact.content = r.documents.list[3].content

\* C17: a saveContent call with no latest document tracked, or with the
\* content of the tracked latest document, changes nothing: the dirty flag
\* is as before, no flush is scheduled or run, and a debounced flush that is
\* armed stays armed with its earlier content, ready to fire.
C17_SaveContentNoOp ==
    /\ [][(/\ op'.name \in {"saveDebounced", "saveImmediate"}
           /\ (r.document = << >> \/ op'.arg = r.document[1].content))
             => UNCHANGED << isContentDirty, pending, inflight, posted, cache,
                             server, artifact, document, mode,
                             currentVersionIndex, r >>]_vars
    /\ []((pending # << >> /\ ~RenderPending) => ENABLED DebounceExpire)

\* a debounced call with the tracked content has left the timer of an
\* earlier call armed with that call's content
C17_Witness ==
    /\ op.name = "saveDebounced"
    /\ r.document # << >> /\ op.arg = r.document[1].content
    /\ pending # << >> /\ pending[1] # op.arg
    /\ isContentDirty

\* C19: no handleVersionChange call issues a write request or changes the
\* cached history, the content buffer, the tracked document or the dirty
\* flag; 'prev' and 'next' leave the display mode as it is; a call made
\* while the history is not loaded changes nothing.
C19_NavigationFrame ==
    [][op'.name \in Types =>
          /\ UNCHANGED << artifact, cache, server, document, isContentDirty,
                          pending, inflight, posted, r >>
          /\ op'.name \in {"prev", "next"} => mode' = mode
          /\ ~r.documents.loaded
               => UNCHANGED << currentVersionIndex, mode >>]_vars

\* 'toggle' was called in the diff view while the history is not loaded
\* and a flush is armed: everything is as before
C19_Witness ==
    /\ op.name = "toggle"
    /\ ~r.documents.loaded
    /\ r.mode = "diff" /\ mode = "diff"
    /\ currentVersionIndex = r.currentVersionIndex
    /\ currentVersionIndex >= 0

\* C13: a query parameter present at the mount is sent as one synthetic
\* user turn by the mount's effect pass; once a turn has been sent no later
\* render/effect pass of the mounted chat sends another, whatever
\* dependency of the effect changes; a pass that finds no query parameter
\* sends nothing.
C13_QuerySentOnce ==
    [][/\ (~chatR.mounted /\ chatR'.mounted)
            => sentTurns' = (IF query # "" THEN << query >> ELSE << >>)
       /\ sentTurns # << >> => sentTurns' = sentTurns
       /\ query = "" => sentTurns' = sentTurns]_vars

\* the query "hi" was sent at the mount, and the effect has run again with a
\* new sendMessage and the flag set
C13_Witness ==
    /\ chatR = ChatDeps
    /\ chatR.hasAppendedQuery
    /\ chatR.sendMessage >= 1
    /\ query = "hi"
    /\ sentTurns = << "hi" >>

\* C15: every collapse event sets isVisible false and opens the sidebar;
\* every expand event closes the sidebar and sets hasBeenExpanded;
\* hasBeenExpanded becomes true only by an expand event and never returns to
\* false; each render passes the Panel the minimum size 50 while
\* hasBeenExpanded is false and 10 once it is true.
C15_PanelEvents ==
    [][/\ op'.name = "collapse" => (~isVisible' /\ open')
       /\ op'.name = "expand" => (~open' /\ hasBeenExpanded')
       /\ hasBeenExpanded => hasBeenExpanded'
       /\ (~hasBeenExpanded /\ hasBeenExpanded') => op'.name = "expand"
       /\ panelR' # panelR
            => panelR'.minSize = (IF hasBeenExpanded THEN 10 ELSE 50)]_vars

\* the pane was expanded under the minimum size 50, rendered with 10, and
\* then collapsed by the user
C15_Witness ==
    /\ op.name = "collapse"
    /\ op.arg = "user"
    /\ hasBeenExpanded
    /\ panelR.minSize = 10
    /\ collapsed
    /\ ~isVisible
    /\ open

IsPrefix(s, t) == Len(s) <= Len(t) /\ SubSeq(t, 1, Len(s)) = s

\* C18: every step of the write path (a flush run by saveContent or by the
\* debounce timer, the completion or rejection of its POST) leaves the
\* cached history with the history before the step as a prefix and at most
\* one record longer, an absent history absent; a completing write that
\* changes the cache appends to the history it read when it started; a
\* flush that finds no history for the document issues no write.
C18_AppendOnly ==
    [][op'.name \in {"saveImmediate", "saveDebounced", "flush", "writeOk", "writeFail"}
         => /\ cache'.loaded = cache.loaded
            /\ IsPrefix(cache.list, cache'.list)
            /\ Len(cache'.list) <= Len(cache.list) + 1
            /\ (op'.name = "writeOk" /\ cache' # cache) => cache.list = op'.before
            /\ ~cache.loaded => (posted' = posted /\ inflight' = inflight)]_vars

\* an immediate flush has run against an absent history while a debounced
\* flush is armed
C18_Witness ==
    /\ op.name = "saveImmediate"
    /\ r.document # << >>
    /\ op.arg # r.document[1].content
    /\ pending # << >>
    /\ ~cache.loaded
    /\ posted = << >>

====
